---------------------------- MODULE Spec2Model ----------------------------
(***************************************************************************)
(* A model of d6e/filecabinet: the filename codec and the normalization    *)
(* checker of src/utils.rs (parse_date, parse_page, OptDoc::new,           *)
(* is_normalized), the directory scan (list_files) and the part of the     *)
(* document pane of src/main.rs that consumes it (DocPane::update).        *)
(*                                                                         *)
(* A string (str, OsStr, Path) is a sequence of characters, each character *)
(* a one-letter TLA+ string.  An Option is a sequence of length 0 (None)   *)
(* or 1 (Some(x)).                                                         *)
(***************************************************************************)
EXTENDS Naturals, Sequences, FiniteSets

VARIABLES
    input,       \* codec: the argument of the call, [kind, value]
    ident,       \* codec: the identity the argument was rendered from
    date_out,    \* codec: what parse_date(input.value) returned
    page_out,    \* codec: what parse_page(input.value) returned
    doc,         \* codec: what OptDoc::new(input.value) returned
    normalized,  \* codec: what is_normalized(input.value) returned
    fs,          \* scan: the file system, path -> [kind, entries]
    listed,      \* scan: the last list_files call, [status, path, names]
    path_value,  \* scan: DocPane.path_value
    docs,        \* scan: DocPane.docs
    crashed,     \* scan: the process panicked
    camel_in,    \* camelcase: the argument of to_camelcase
    camel_out,   \* camelcase: what to_camelcase(camel_in) returned
    camel_prev,  \* camelcase: the result camel_in was taken from
    app,         \* FileCabinet: "Loading" or "Loaded"
    panes,       \* State.panes: pane -> its content
    last_id,     \* State.panes: the last id the pane grid gave out
    doc_pane,    \* State.doc_pane
    preview_pane, \* State.preview_pane
    dirty,       \* State.dirty
    saving,      \* State.saving
    filter,      \* DocPane.filter
    commands,    \* the commands the runtime is performing
    pending      \* the messages of the current view, not yet handled

camelVars == <<camel_in, camel_out, camel_prev>>
appVars == <<app, panes, last_id, doc_pane, preview_pane, dirty, saving,
             filter, commands, pending>>

vars == <<input, ident, date_out, page_out, doc, normalized,
          fs, listed, path_value, docs, crashed, camelVars, appVars>>

codecVars == <<input, ident, date_out, page_out, doc, normalized>>
scanVars == <<fs, listed, path_value, docs, crashed>>

(***************************************************************************)
(* Characters and options                                                  *)
(***************************************************************************)

None == <<>>
Some(x) == <<x>>

\* Option::or (eager in Rust: both sides are evaluated, the first Some wins)
OptOr(a, b) == IF a # None THEN a ELSE b

Range(s) == {s[i] : i \in 1..Len(s)}

Min(S) == CHOOSE x \in S : \A y \in S : x <= y
Max(S) == CHOOSE x \in S : \A y \in S : x >= y

\* \d of the regex crate (the class of decimal digits; the model's alphabet
\* holds ASCII digits only)
Digits == {"0", "1", "2", "3", "4", "5", "6", "7", "8", "9"}
IsDigit(c) == c \in Digits

\* A byte that is no valid UTF-8 (a lone 0xFF): it can occur in an OsStr, a
\* Path or a directory entry's name, never in a str or a String.
InvalidByte == "0xFF"

\* char::to_ascii_lowercase, on the upper-case letters of the alphabet
LowerChar(c) ==
    CASE c = "P" -> "p"
      [] c = "D" -> "d"
      [] c = "F" -> "f"
      [] c = "N" -> "n"
      [] c = "G" -> "g"
      [] c = "A" -> "a"
      [] OTHER -> c

\* str::to_ascii_lowercase
to_ascii_lowercase(s) == [i \in 1..Len(s) |-> LowerChar(s[i])]

\* OsStr::to_str: None when the bytes are not valid UTF-8
to_str(os) == IF InvalidByte \in Range(os) THEN None ELSE Some(os)

\* str::split(c): the pieces between the occurrences of c; "" gives [""]
RECURSIVE Split(_, _)
Split(s, c) ==
    LET at == {i \in 1..Len(s) : s[i] = c}
    IN  IF at = {} THEN <<s>>
        ELSE <<SubSeq(s, 1, Min(at) - 1)>>
             \o Split(SubSeq(s, Min(at) + 1, Len(s)), c)

(***************************************************************************)
(* parse_page and parse_date (src/utils.rs 131-187)                        *)
(***************************************************************************)

\* Mutation of RE_PARSE_PAGE: (\d), a single digit.
RE_PARSE_PAGE_LeftmostFirstDigit(text) ==
    LET at == {i \in 1..Len(text) : IsDigit(text[i])}
    IN  IF at = {} THEN None
        ELSE Some(SubSeq(text, Min(at), Min(at)))

\* RE_PARSE_PAGE = (\d+), unanchored: the leftmost match, greedy.  The value
\* is the capture group 1 of the match, None when nothing matches.
RE_PARSE_PAGE(text) ==
    LET at == {i \in 1..Len(text) : IsDigit(text[i])}
    IN  IF at = {} THEN None
        ELSE LET s == Min(at)
                 e == Max({j \in s..Len(text) :
                              \A k \in s..j : IsDigit(text[k])})
             IN  Some(SubSeq(text, s, e))

parse_page(text) == RE_PARSE_PAGE(text)

YearDigits == 4
MonthDigits == 2
DayDigits == 2

\* \d{n} at position from
MatchDigits(text, from, n) ==
    /\ from + n - 1 <= Len(text)
    /\ \A i \in from..(from + n - 1) : IsDigit(text[i])

\* a literal character at position at
MatchLit(text, at, c) == at <= Len(text) /\ text[at] = c

\* ^(?P<year>\d{4})-(?P<month>\d{2})-(?P<day>\d{2})
RE_WITH_HYPHENS(text) ==
    LET m == YearDigits + 2
        d == m + MonthDigits + 1
    IN  IF /\ MatchDigits(text, 1, YearDigits)
           /\ MatchLit(text, YearDigits + 1, "-")
           /\ MatchDigits(text, m, MonthDigits)
           /\ MatchLit(text, m + MonthDigits, "-")
           /\ MatchDigits(text, d, DayDigits)
        THEN Some([year |-> Some(SubSeq(text, 1, YearDigits)),
                   month |-> Some(SubSeq(text, m, m + MonthDigits - 1)),
                   day |-> Some(SubSeq(text, d, d + DayDigits - 1))])
        ELSE None

\* ^(?P<year>\d{4})(?P<month>\d{2})(?P<day>\d{2})
RE_NO_HYPHENS(text) ==
    LET m == YearDigits + 1
        d == m + MonthDigits
    IN  IF MatchDigits(text, 1, YearDigits + MonthDigits + DayDigits)
        THEN Some([year |-> Some(SubSeq(text, 1, YearDigits)),
                   month |-> Some(SubSeq(text, m, m + MonthDigits - 1)),
                   day |-> Some(SubSeq(text, d, d + DayDigits - 1))])
        ELSE None

\* ^(?P<year>\d{4}): the groups month and day do not exist
RE_YEAR_ONLY(text) ==
    IF MatchDigits(text, 1, YearDigits)
    THEN Some([year |-> Some(SubSeq(text, 1, YearDigits)),
               month |-> None, day |-> None])
    ELSE None

\* format!("{}-{}-{}", year, month or "01", day or "01")
FormatDate(x) ==
    x.year[1] \o <<"-">>
    \o (IF x.month # None THEN x.month[1] ELSE <<"0", "1">>) \o <<"-">>
    \o (IF x.day # None THEN x.day[1] ELSE <<"0", "1">>)

\* Option::map(FormatDate)
MapFormatDate(captures) ==
    IF captures = None THEN None ELSE Some(FormatDate(captures[1]))

\* Mutation of parse_date: the year-only pattern is tried before the
\* compact one.
parse_date_YearOnlyBeforeCompact(text) ==
    OptOr(OptOr(MapFormatDate(RE_WITH_HYPHENS(text)),
                MapFormatDate(RE_YEAR_ONLY(text))),
          MapFormatDate(RE_NO_HYPHENS(text)))

\* parse_date: the three patterns, the first Some wins
parse_date(text) ==
    OptOr(OptOr(MapFormatDate(RE_WITH_HYPHENS(text)),
                MapFormatDate(RE_NO_HYPHENS(text))),
          MapFormatDate(RE_YEAR_ONLY(text)))

(***************************************************************************)
(* std::path::Path on Unix, as far as OptDoc::new and is_normalized use it *)
(***************************************************************************)

\* Path::components: the root, a leading ".", then the pieces between the
\* separators; empty pieces and every other "." are skipped.
Components(p) ==
    LET ps == Split(p, "/")
        lead == IF Len(p) > 0 /\ p[1] = "/"
                THEN <<[kind |-> "RootDir", name |-> <<>>]>>
                ELSE IF ps[1] = <<".">>
                     THEN <<[kind |-> "CurDir", name |-> <<>>]>>
                     ELSE <<>>
        IsBody(x) == x # <<>> /\ x # <<".">>
        body == SelectSeq(ps, IsBody)
    IN  lead \o [i \in 1..Len(body) |->
                    IF body[i] = <<".", ".">>
                    THEN [kind |-> "ParentDir", name |-> <<>>]
                    ELSE [kind |-> "Normal", name |-> body[i]]]

\* the name of the last component when it is a normal one
LastNormal(cs) ==
    IF cs # <<>> /\ cs[Len(cs)].kind = "Normal"
    THEN Some(cs[Len(cs)].name)
    ELSE None

\* Path::file_name
file_name(p) == LastNormal(Components(p))

\* split_file_at_dot of std::path: (before, after) the last '.'
split_file_at_dot(file) ==
    LET at == {i \in 1..Len(file) : file[i] = "."}
    IN  IF file = <<".", ".">> THEN [before |-> Some(file), after |-> None]
        ELSE IF at = {} THEN [before |-> None, after |-> Some(file)]
        ELSE IF Max(at) = 1 THEN [before |-> Some(file), after |-> None]
        ELSE [before |-> Some(SubSeq(file, 1, Max(at) - 1)),
              after |-> Some(SubSeq(file, Max(at) + 1, Len(file)))]

\* Option::or and Option::and of the two halves
BeforeOrAfter(x) == OptOr(x.before, x.after)
BeforeAndAfter(x) == IF x.before # None THEN x.after ELSE None

\* Option::map(split_file_at_dot).and_then(before.or(after)), on a file name
StemOfName(fname) ==
    IF fname = None THEN None ELSE BeforeOrAfter(split_file_at_dot(fname[1]))

\* Option::map(split_file_at_dot).and_then(before.and(after)), on a file name
ExtensionOfName(fname) ==
    IF fname = None THEN None ELSE BeforeAndAfter(split_file_at_dot(fname[1]))

\* Path::file_stem
file_stem(p) == StemOfName(file_name(p))

\* Path::extension
path_extension(p) == ExtensionOfName(file_name(p))

\* Components::as_path after the last component was taken: what follows
\* the last remaining component (separators, "." pieces) is cut
RECURSIVE TrimRight(_)
TrimRight(p) ==
    LET n == Len(p)
    IN  IF n <= 1 THEN p
        ELSE IF p[n] = "/" THEN TrimRight(SubSeq(p, 1, n - 1))
        ELSE IF p[n] = "." /\ p[n - 1] = "/" THEN TrimRight(SubSeq(p, 1, n - 1))
        ELSE p

\* the path t, which ends with its last component, without that component
DropLast(t) ==
    LET at == {i \in 1..Len(t) : t[i] = "/"}
    IN  IF at = {} THEN <<>> ELSE TrimRight(SubSeq(t, 1, Max(at)))

\* the parent of a path with the components cs
ParentOf(p, cs) ==
    IF cs = <<>> \/ cs[Len(cs)].kind = "RootDir" THEN None
    ELSE Some(DropLast(TrimRight(p)))

\* Path::parent: the path without its last component; None for the root
\* and for the empty path
parent(p) == ParentOf(p, Components(p))

\* Path::join (PathBuf::push): an absolute argument replaces the path
join(base, name) ==
    IF Len(name) > 0 /\ name[1] = "/" THEN name
    ELSE IF Len(base) > 0 /\ base[Len(base)] # "/" THEN base \o <<"/">> \o name
    ELSE base \o name

\* PartialEq for Path: the components are compared, not the bytes
PathEq(a, b) == Components(a) = Components(b)

(***************************************************************************)
(* OptDoc::new, OptDoc::is_parseable, is_normalized (src/utils.rs 7-63)    *)
(***************************************************************************)

NoDoc == [status |-> "unset", date |-> None, institution |-> None,
          name |-> None, page |-> None]

PanicDoc == [status |-> "panic", date |-> None, institution |-> None,
             name |-> None, page |-> None]

\* Vec::get(i), i counted from 0
Get(v, i) == IF i + 1 <= Len(v) THEN Some(v[i + 1]) ELSE None

\* Mutation of OptDocFields: the page is parsed from the last token.
OptDocFields_PageFromLastToken(v) ==
    [status |-> "ok",
     date |-> IF Get(v, 0) = None THEN None ELSE parse_date(Get(v, 0)[1]),
     institution |-> Get(v, 1),
     name |-> Get(v, 2),
     page |-> IF Get(v, 3) = None THEN None ELSE parse_page(v[Len(v)])]

\* the struct literal of OptDoc::new, from the tokens v
OptDocFields(v) ==
    [status |-> "ok",
     date |-> IF Get(v, 0) = None THEN None ELSE parse_date(Get(v, 0)[1]),
     institution |-> Get(v, 1),
     name |-> Get(v, 2),
     page |-> IF Get(v, 3) = None THEN None ELSE parse_page(Get(v, 3)[1])]

\* Option::and_then(OsStr::to_str)
AndThenToStr(o) == IF o = None THEN None ELSE to_str(o[1])

\* stem.unwrap_or(whole.unwrap()): a None whole panics, whatever the stem
UnwrapOrWhole(stem, whole) ==
    IF whole = None THEN PanicDoc
    ELSE OptDocFields(Split(OptOr(stem, whole)[1], "_"))

\* OptDoc::new.  unwrap_or takes its argument by value: the default
\* filename.to_str().unwrap() is evaluated, and panics, whether or not the
\* path has a stem.
OptDoc_new(filename) ==
    UnwrapOrWhole(AndThenToStr(file_stem(filename)), to_str(filename))

is_parseable(d) ==
    d.date # None /\ d.institution # None /\ d.name # None /\ d.page # None

\* format!("{}_{}_{}_{}.{}", date, institution, name, page or "1", extension)
\* The page default "1" is the code's; date, institution and name are
\* expect()ed: None panics.
FormatName(d, extension) ==
    d.date[1] \o <<"_">> \o d.institution[1] \o <<"_">> \o d.name[1]
    \o <<"_">> \o (IF d.page # None THEN d.page[1] ELSE <<"1">>)
    \o <<".">> \o extension

\* Option::map(to_ascii_lowercase).unwrap_or(String::new())
LowerOrEmpty(e) == IF e = None THEN <<>> ELSE to_ascii_lowercase(e[1])

\* the extension as is_normalized, list_files and utils::extension compute it
extension(source) == LowerOrEmpty(AndThenToStr(path_extension(source)))

\* the match on source.parent(), with the parsed identity d
MatchParent(source, d, basename) ==
    IF basename = None THEN "false"
    ELSE IF d.date = None \/ d.institution = None \/ d.name = None
         THEN "panic"
    ELSE IF PathEq(source, join(basename[1], FormatName(d, extension(source))))
         THEN "true" ELSE "false"

\* is_normalized after OptDoc::new returned d
NormalizedOf(source, d) ==
    IF d.status = "panic" THEN "panic"
    ELSE IF ~is_parseable(d) THEN "false"
    ELSE MatchParent(source, d, parent(source))

\* is_normalized: "true", "false", or "panic"
is_normalized(source) == NormalizedOf(source, OptDoc_new(source))

(***************************************************************************)
(* The codec's inputs                                                      *)
(***************************************************************************)

MaxParts == 6
MaxTokens == 5

\* The texts parse_date and parse_page are applied to: up to MaxParts
\* parts, each a run of digits, a hyphen or a letter.
Parts == { <<"2", "0", "1", "8">>, <<"1", "3">>, <<"0", "5">>,
           <<"-">>, <<"x">> }

RECURSIVE TextsUpTo(_)
TextsUpTo(n) ==
    IF n = 0 THEN {<<>>}
    ELSE LET prev == TextsUpTo(n - 1)
         IN  prev \cup {t \o q : t \in prev, q \in Parts}

Texts == TextsUpTo(MaxParts)

\* The tokens of a stem, by position.
DateToks == { <<"2", "0", "1", "8", "-", "1", "3", "-", "0", "5">>,
              <<"2", "0", "1", "8", "1", "3", "0", "5">>,
              <<"2", "0", "1", "8">>,
              <<"2", "0", "1", "8", "-", "1", "3", "-", "0", "5", "x">>,
              <<"x">>,
              <<>> }
InstToks == { <<"a">>, <<>>, <<"A", ".", "b">>, <<"a", "/", "x">> }
NameToks == { <<"b">>, <<>> }
PageToks == { <<"1">>, <<"0", "1">>, <<"p", "g", "2", "0">>, <<"p", "g">>, <<>> }
ExtraToks == { <<"z">> }

TokenChoices(k) ==
    CASE k = 1 -> DateToks
      [] k = 2 -> InstToks
      [] k = 3 -> NameToks
      [] k = 4 -> PageToks
      [] OTHER -> ExtraToks

\* the stems of n tokens, joined by '_'
RECURSIVE StemsOf(_)
StemsOf(n) ==
    IF n = 1 THEN DateToks
    ELSE {s \o <<"_">> \o t : s \in StemsOf(n - 1), t \in TokenChoices(n)}

Stems == UNION {StemsOf(n) : n \in 1..MaxTokens}

\* what follows the stem: nothing, an extension, a trailing separator, ".."
Suffixes == { <<>>, <<".", "p", "d", "f">>, <<".", "P", "D", "F">>, <<".">>,
              <<".", "p", "d", "f", "/">>, <<"/", ".", ".">> }

\* what precedes the file name
Dirs == { <<>>, <<"d", "/">>, <<"/">>, <<"d", "/", "/">>, <<".", "/">>,
          <<"d", "/", ".", "/">>, <<InvalidByte, "/">> }

Paths == {d \o s \o x : d \in Dirs, s \in Stems, x \in Suffixes}

\* the extensions a canonical file name is rendered with
Exts == { <<"p", "d", "f">>, <<"P", "D", "F">>, <<>> }

(***************************************************************************)
(* The codec's calls                                                       *)
(***************************************************************************)

Unset == <<>>
Returned(x) == <<x>>

ScanIdle ==
    /\ fs = [kind |-> "absent", entries |-> <<>>]
    /\ listed = [status |-> "unset", path |-> <<>>, names |-> <<>>]
    /\ path_value = <<>>
    /\ docs = <<>>
    /\ crashed = FALSE

\* to_camelcase was not called
CamelIdle ==
    /\ camel_in = <<>>
    /\ camel_out = Unset
    /\ camel_prev = Unset

\* the application was not started: no State exists
AppIdle ==
    /\ app = "Loading"
    /\ panes = {}
    /\ last_id = 0
    /\ doc_pane = None
    /\ preview_pane = None
    /\ dirty = FALSE
    /\ saving = FALSE
    /\ filter = "All"
    /\ commands = {}
    /\ pending = <<>>

InitCodec ==
    /\ input \in [kind : {"text"}, value : Texts]
                 \cup [kind : {"path"}, value : Paths]
    /\ ident = NoDoc
    /\ date_out = Unset
    /\ page_out = Unset
    /\ doc = NoDoc
    /\ normalized = "unset"
    /\ ScanIdle
    /\ CamelIdle
    /\ AppIdle

ParseDate ==
    /\ input.kind = "text"
    /\ date_out = Unset
    /\ date_out' = Returned(parse_date(input.value))
    /\ UNCHANGED <<input, ident, page_out, doc, normalized,
                 scanVars, camelVars, appVars>>

ParsePage ==
    /\ input.kind = "text"
    /\ page_out = Unset
    /\ page_out' = Returned(parse_page(input.value))
    /\ UNCHANGED <<input, ident, date_out, doc, normalized,
                 scanVars, camelVars, appVars>>

NewOptDoc ==
    /\ input.kind = "path"
    /\ doc.status = "unset"
    /\ doc' = OptDoc_new(input.value)
    /\ UNCHANGED <<input, ident, date_out, page_out, normalized,
                 scanVars, camelVars, appVars>>

IsNormalized ==
    /\ input.kind = "path"
    /\ normalized = "unset"
    /\ normalized' = is_normalized(input.value)
    /\ UNCHANGED <<input, ident, date_out, page_out, doc,
                 scanVars, camelVars, appVars>>

\* The canonical file name of a fully parseable identity, put in a
\* directory: the next argument of OptDoc::new and is_normalized.
Render(dir, ext) ==
    /\ input.kind = "path"
    /\ ident.status = "unset"
    /\ doc.status = "ok"
    /\ is_parseable(doc)
    /\ input' = [kind |-> "path",
                 value |-> dir \o FormatName(doc, to_ascii_lowercase(ext))]
    /\ ident' = doc
    /\ doc' = NoDoc
    /\ normalized' = "unset"
    /\ UNCHANGED <<date_out, page_out,
                 scanVars, camelVars, appVars>>

NextCodec ==
    \/ ParseDate
    \/ ParsePage
    \/ NewOptDoc
    \/ IsNormalized
    \/ \E dir \in Dirs, ext \in Exts : Render(dir, ext)

SpecCodec == InitCodec /\ [][NextCodec]_vars

(***************************************************************************)
(* Claims about the codec, checked under SpecCodec                         *)
(***************************************************************************)

AllDigits(t, from, to) == to <= Len(t) /\ \A i \in from..to : t[i] \in Digits

StartsHyphenated(t) ==
    /\ AllDigits(t, 1, 4) /\ AllDigits(t, 6, 7) /\ AllDigits(t, 9, 10)
    /\ t[5] = "-" /\ t[8] = "-"
StartsCompact(t) == AllDigits(t, 1, 8)
StartsYear(t) == AllDigits(t, 1, 4)

\* C1: the canonical file name rendered from a fully parseable identity, with
\* any extension and in any parent directory, parses back to that identity
\* field by field, and is_normalized returns true for it.
C1_RoundTrip ==
    ident.status = "ok" =>
        /\ doc.status # "unset" => doc = ident
        /\ normalized # "unset" => normalized = "true"

\* C1, on the inputs where it does hold: when no field of the identity holds
\* a path separator and the parent directory is valid UTF-8, the canonical
\* file name parses back to the identity and is normalized.
C1_RoundTripOfTextNames ==
    /\ ident.status = "ok"
    /\ "/" \notin Range(ident.institution[1]) \cup Range(ident.name[1])
    /\ InvalidByte \notin Range(input.value)
    => /\ doc.status # "unset" => doc = ident
       /\ normalized # "unset" => normalized = "true"

\* the path is, byte for byte, its parent joined with the canonical file name
\* of the identity its stem parses to
ByteCanonical(p) ==
    LET d == OptDoc_new(p)
    IN  /\ d.status = "ok"
        /\ is_parseable(d)
        /\ parent(p) # None
        /\ join(parent(p)[1], FormatName(d, extension(p))) = p

\* C2: is_normalized returns true exactly when the stem is fully parseable
\* and the parent joined with the canonical file name is byte-for-byte the
\* path; every other path yields false.
C2_TrueIffByteIdentical ==
    normalized # "unset" =>
        /\ ByteCanonical(input.value) => normalized = "true"
        /\ ~ByteCanonical(input.value) => normalized = "false"

\* C2, on the paths that are valid UTF-8: is_normalized returns true exactly
\* when the stem is fully parseable and the file name, the last component
\* of the path, is the canonical file name; the bytes of the parent, its
\* separators included, do not matter.
C2_TrueIffCanonicalName ==
    normalized # "unset" /\ to_str(input.value) # None =>
        LET d == OptDoc_new(input.value)
        IN  /\ normalized \in {"true", "false"}
            /\ normalized = "true" <=>
                   /\ is_parseable(d)
                   /\ file_name(input.value)
                          = Some(FormatName(d, extension(input.value)))

\* C3: parse_date uses the first of hyphenated, compact, year-only that
\* matches the start of the token, copies the digits verbatim (no range
\* check), fills a year-only date with 01-01, and returns None otherwise.
C3_DatePriority ==
    date_out # Unset =>
        LET t == input.value
            r == date_out[1]
        IN  /\ StartsHyphenated(t) => r = Some(SubSeq(t, 1, 10))
            /\ ~StartsHyphenated(t) /\ StartsCompact(t) =>
                   r = Some(SubSeq(t, 1, 4) \o <<"-">> \o SubSeq(t, 5, 6)
                            \o <<"-">> \o SubSeq(t, 7, 8))
            /\ ~StartsHyphenated(t) /\ ~StartsCompact(t) /\ StartsYear(t) =>
                   r = Some(SubSeq(t, 1, 4) \o <<"-", "0", "1", "-", "0", "1">>)
            /\ ~StartsYear(t) => r = None

\* C3's case: a compact token with month 13 was decoded as compact
C3_Witness ==
    /\ date_out # Unset
    /\ StartsCompact(input.value)
    /\ date_out[1] = Some(<<"2", "0", "1", "8", "-", "1", "3", "-", "0", "5">>)

\* the stem OptDoc::new splits: the file stem, or the whole path when the
\* path has no file name
StemOf(p) == IF file_stem(p) # None THEN file_stem(p)[1] ELSE p

\* the tokens of a stem, by the positions of its underscores
UnderscoresOf(s) == {i \in 1..Len(s) : s[i] = "_"}
NthUnderscore(s, n) ==
    IF n = 0 THEN 0
    ELSE IF n > Cardinality(UnderscoresOf(s)) THEN Len(s) + 1
    ELSE CHOOSE i \in UnderscoresOf(s) :
             Cardinality({j \in UnderscoresOf(s) : j < i}) = n - 1
HasToken(s, k) == k <= Cardinality(UnderscoresOf(s))
TokenOf(s, k) == SubSeq(s, NthUnderscore(s, k) + 1, NthUnderscore(s, k + 1) - 1)

ReplaceToken(v, k, t) == [v EXCEPT ![k + 1] = t]
OtherTokens == { <<>>, <<"x">>, <<"2", "0", "1", "8">>, <<"7">> }

SameExcept(a, b, k) ==
    /\ k # 0 => a.date = b.date
    /\ k # 1 => a.institution = b.institution
    /\ k # 2 => a.name = b.name
    /\ k # 3 => a.page = b.page

\* C4: OptDoc::new derives each field from the token at its own position
\* (0 date, 1 institution, 2 name, 3 page); another value of one token
\* changes no other field; tokens beyond index 3 are ignored; a missing
\* token leaves its field None; no shape of the stem makes it panic (it
\* panics exactly when the path is not valid UTF-8, whatever the stem).
C4_PositionalFields ==
    /\ doc.status = "panic" => to_str(input.value) = None
    /\ doc.status = "ok" => to_str(input.value) # None
    /\ doc.status = "ok" =>
        LET s == StemOf(input.value)
            v == Split(s, "_")
        IN  /\ doc.date = IF HasToken(s, 0) THEN parse_date(TokenOf(s, 0))
                          ELSE None
            /\ doc.institution = IF HasToken(s, 1) THEN Some(TokenOf(s, 1))
                                 ELSE None
            /\ doc.name = IF HasToken(s, 2) THEN Some(TokenOf(s, 2)) ELSE None
            /\ doc.page = IF HasToken(s, 3) THEN parse_page(TokenOf(s, 3))
                          ELSE None
            /\ \A k \in 0..3, t \in OtherTokens :
                   k + 1 <= Len(v) =>
                       SameExcept(OptDocFields(ReplaceToken(v, k, t)), doc, k)
            /\ \A n \in 4..Len(v) : OptDocFields(SubSeq(v, 1, n)) = doc

\* C4's case: a stem of five tokens whose date token does not parse
C4_Witness ==
    /\ doc.status = "ok"
    /\ Cardinality(UnderscoresOf(StemOf(input.value))) = 4
    /\ doc.date = None
    /\ doc.institution = Some(<<"a">>)
    /\ doc.name = Some(<<"b">>)
    /\ doc.page = Some(<<"2", "0">>)

\* C5: for every path whose stem is not fully parseable, is_normalized
\* returns false: it never panics.
C5_UnparseableIsFalse ==
    /\ normalized # "unset"
    /\ ~is_parseable(OptDocFields(Split(StemOf(input.value), "_")))
    => normalized = "false"

\* C5, on the paths that are valid UTF-8: is_normalized returns false for a
\* stem that is not fully parseable, and never panics.
C5_UnparseableTextIsFalse ==
    normalized # "unset" /\ to_str(input.value) # None =>
        /\ normalized # "panic"
        /\ ~is_parseable(OptDocFields(Split(StemOf(input.value), "_")))
               => normalized = "false"

\* C10: parse_page returns the first maximal run of digits of the token,
\* unchanged, and None exactly when the token holds no digit.
C10_FirstDigitRun ==
    page_out # Unset =>
        LET t == input.value
            r == page_out[1]
        IN  /\ r = None <=> \A i \in 1..Len(t) : t[i] \notin Digits
            /\ r # None =>
                   \E i \in 1..Len(t), j \in 1..Len(t) :
                       /\ i <= j
                       /\ r[1] = SubSeq(t, i, j)
                       /\ \A k \in 1..j : t[k] \in Digits <=> k >= i
                       /\ j < Len(t) => t[j + 1] \notin Digits

\* C10's case: the run follows a letter, starts with a zero and is followed
\* by more text
C10_Witness ==
    /\ page_out = Returned(Some(<<"0", "5">>))
    /\ Len(input.value) > 3
    /\ input.value[1] = "x"

(***************************************************************************)
(* list_files (src/utils.rs 87-105) and DocPane::update, PathChanged       *)
(* (src/main.rs 102-120)                                                   *)
(***************************************************************************)

MaxEntries == 3

\* The one path of the file system that may exist; every other path is
\* absent.  fs.kind says what is there: "absent", "dir" (a directory whose
\* entries read_dir yields in the order of fs.entries), "file" (a regular
\* file) or "unreadable" (a directory read_dir is refused on).
DirPath == <<"d">>

\* the paths list_files is called with
ScanPaths == { DirPath, <<"q">>, <<>> }

\* What a directory may hold.  kind "file": a regular file; "dir": a
\* directory; "symlink": a symbolic link to a regular file; "ioerr": an
\* entry that read_dir fails to read.
Catalogue ==
    { [name |-> <<"a", ".", "p", "d", "f">>, kind |-> "file"],
      [name |-> <<"b", ".", "t", "x", "t">>, kind |-> "file"],
      [name |-> <<"c", ".", "P", "N", "G">>, kind |-> "file"],
      [name |-> <<"e", ".", "c", "o", "c", "o", "o", "n">>, kind |-> "file"],
      [name |-> <<"n">>, kind |-> "file"],
      [name |-> <<".", "p", "d", "f">>, kind |-> "file"],
      [name |-> <<"s", ".", "j", "p", "g">>, kind |-> "dir"],
      [name |-> <<"l", ".", "p", "n", "g">>, kind |-> "symlink"],
      [name |-> <<InvalidByte, ".", "p", "d", "f">>, kind |-> "file"],
      [name |-> <<"g", ".", "j", "p", "g">>, kind |-> "ioerr"] }

\* the enumerations of at most n distinct entries
RECURSIVE EntrySeqs(_)
EntrySeqs(n) ==
    IF n = 0 THEN {<<>>}
    ELSE LET prev == EntrySeqs(n - 1)
         IN  prev \cup {Append(es, e) : es \in prev,
                                        e \in Catalogue}

Distinct(es) == \A i, j \in 1..Len(es) : i # j => es[i] # es[j]

FileSystems ==
    {[kind |-> "dir", entries |-> es] :
        es \in {x \in EntrySeqs(MaxEntries) : Distinct(x)}}
    \cup {[kind |-> k, entries |-> <<>>] : k \in {"absent", "file", "unreadable"}}

\* Path::exists: the metadata of the path can be read
exists(f, path) == path = DirPath /\ f.kind # "absent"

\* Path::read_dir: Some(entries), or None for the io::Error
read_dir(f, path) ==
    IF path = DirPath /\ f.kind = "dir" THEN Some(f.entries) ELSE None

\* Path::is_file of an entry's path: symbolic links are followed
is_file(e) == e.kind \in {"file", "symlink"}

AllowList == { <<"p", "d", "f">>, <<"j", "p", "g">>, <<"p", "n", "g">>,
               <<"c", "o", "c", "o", "o", "n">> }

\* the second filter's closure, on the path of an entry
AllowedExtension(x) == extension(x) \in AllowList

PanicList == [status |-> "panic", names |-> <<>>]

\* x.file_name().unwrap().to_str().unwrap(): None stands for the panic
NameOf(fname) == IF fname = None THEN None ELSE to_str(fname[1])

\* collect(), on the names of the entries that passed both filters
Collect(names) ==
    IF \E i \in 1..Len(names) : names[i] = None THEN PanicList
    ELSE [status |-> "ok", names |-> [i \in 1..Len(names) |-> names[i][1]]]

\* the entries' paths that pass the filters is_file and AllowedExtension
Filtered(path, entries) ==
    LET Keep(e) == is_file(e) /\ AllowedExtension(join(path, e.name))
    IN  SelectSeq(entries, Keep)

\* the map to the file names
MapNames(path, kept) ==
    [i \in 1..Len(kept) |-> NameOf(file_name(join(path, kept[i].name)))]

\* Mutation of ListEntries: the extension of every regular file is
\* unwrapped, so that a file without an extension panics.
ListEntries_UnwrapExtension(path, entries) ==
    IF \E i \in 1..Len(entries) :
           \/ entries[i].kind = "ioerr"
           \/ is_file(entries[i])
              /\ path_extension(join(path, entries[i].name)) = None
    THEN PanicList
    ELSE Collect(MapNames(path, Filtered(path, entries)))

\* the iterator chain on the entries of a directory that read_dir opened:
\* x.unwrap() panics on an entry that failed to read
ListEntries(path, entries) ==
    IF \E i \in 1..Len(entries) : entries[i].kind = "ioerr"
    THEN PanicList
    ELSE Collect(MapNames(path, Filtered(path, entries)))

\* read_dir(path).expect(..) and the chain
ExpectReadDir(path, dir) ==
    IF dir = None THEN PanicList ELSE ListEntries(path, dir[1])

\* Mutation of list_files: the path is read without the exists() check.
list_files_NoExistsCheck(f, path) == ExpectReadDir(path, read_dir(f, path))

\* list_files on the file system f: [status |-> "ok", names |-> the Vec],
\* or status "panic"
list_files(f, path) ==
    IF ~exists(f, path) THEN [status |-> "ok", names |-> <<>>]
    ELSE ExpectReadDir(path, read_dir(f, path))

\* the Document the closure of DocPane::update builds for a listed name
NewDocument(dir_path, name) ==
    [path |-> join(dir_path, name), completed |-> FALSE, state |-> "Idle"]

InitScan ==
    /\ fs \in FileSystems
    /\ listed = [status |-> "unset", path |-> <<>>, names |-> <<>>]
    /\ path_value = <<>>
    /\ docs = <<>>
    /\ crashed = FALSE
    /\ input = [kind |-> "text", value |-> <<>>]
    /\ ident = NoDoc
    /\ date_out = Unset
    /\ page_out = Unset
    /\ doc = NoDoc
    /\ normalized = "unset"
    /\ CamelIdle
    /\ AppIdle

\* what a call of list_files(path) returned
Outcome(path, r) == [status |-> r.status, path |-> path, names |-> r.names]

\* a call of utils::list_files(path)
ListFiles(path) ==
    /\ ~crashed
    /\ listed' = Outcome(path, list_files(fs, path))
    /\ UNCHANGED <<fs, path_value, docs, crashed,
                 codecVars, camelVars, appVars>>

\* full_path.to_str().expect(..) fails on one of the listed names
ExpectFails(dir_path, names) ==
    \E i \in 1..Len(names) : to_str(join(dir_path, names[i])) = None

\* the assignment to self.docs, from what list_files returned
CollectDocs(value, r) ==
    IF r.status = "panic" \/ ExpectFails(value, r.names)
    THEN crashed' = TRUE /\ docs' = docs
    ELSE /\ crashed' = FALSE
         /\ docs' = [i \in 1..Len(r.names) |-> NewDocument(value, r.names[i])]

\* DocPane::update(Message::PathChanged(value)); a panic ends the process
PathChanged(value) ==
    /\ ~crashed
    /\ path_value' = value
    /\ CollectDocs(value, list_files(fs, value))
    /\ UNCHANGED <<fs, listed, codecVars, camelVars, appVars>>

NextScan ==
    \/ \E path \in ScanPaths : ListFiles(path)
    \/ \E value \in ScanPaths : PathChanged(value)

SpecScan == InitScan /\ [][NextScan]_vars

(***************************************************************************)
(* Claims about the scan, checked under SpecScan                           *)
(***************************************************************************)

\* the file name holds no '.' after its first character
NoExtension(name) == \A i \in 2..Len(name) : name[i] # "."

\* the lower-cased text after the last '.' of a file name that has one
LowerExtension(name) ==
    LET at == {i \in 2..Len(name) : name[i] = "."}
    IN  [i \in 1..(Len(name) - Max(at)) |-> LowerChar(name[Max(at) + i])]

DocumentExtensions == { <<"p", "d", "f">>, <<"j", "p", "g">>, <<"p", "n", "g">> }

\* C6: for any existing directory, list_files returns exactly the names of
\* the direct children that are regular files and whose lower-cased
\* extension is pdf, jpg or png, in their original case; a child with any
\* other extension, cocoon included, is not returned.
C6_ExactlyTheDocuments ==
    /\ listed.status # "unset"
    /\ listed.path = DirPath
    /\ fs.kind \in {"dir", "unreadable"}
    => /\ listed.status = "ok"
       /\ Range(listed.names) =
              {e.name : e \in {x \in Range(fs.entries) :
                                  /\ is_file(x)
                                  /\ ~NoExtension(x.name)
                                  /\ LowerExtension(x.name) \in DocumentExtensions}}

\* C7: list_files on a path that does not exist returns the empty Vec and
\* does not panic; after PathChanged with such a path the document list is
\* empty and the process is alive.
C7_MissingPathIsEmpty ==
    /\ listed.status # "unset" /\ ~exists(fs, listed.path) =>
           listed.status = "ok" /\ listed.names = <<>>
    /\ ~exists(fs, path_value) => ~crashed /\ docs = <<>>

\* C7's case: a listing and a PathChanged of the missing path "q", beside a
\* directory that holds documents
C7_Witness ==
    /\ listed = [status |-> "ok", path |-> <<"q">>, names |-> <<>>]
    /\ path_value = <<"q">>
    /\ docs = <<>>
    /\ ~crashed
    /\ fs.kind = "dir"
    /\ \E i \in 1..Len(fs.entries) :
           fs.entries[i].name = <<"a", ".", "p", "d", "f">>

\* the file system without the regular files that have no extension
WithoutExtensionless(f) ==
    LET Keep(e) == ~(is_file(e) /\ NoExtension(e.name))
    IN  [f EXCEPT !.entries = SelectSeq(f.entries, Keep)]

\* C8: a child without an extension never makes list_files fail: the call
\* ends as it would without the extensionless regular files, and no such
\* file is in the result.
C8_ExtensionlessIgnored ==
    listed.status # "unset" =>
        /\ listed = Outcome(listed.path,
                            list_files(WithoutExtensionless(fs), listed.path))
        /\ \A i \in 1..Len(listed.names) : ~NoExtension(listed.names[i])

\* C8's case: the directory holds the extensionless files "n" and ".pdf"
\* and a document, and the listing is the document
C8_Witness ==
    /\ listed.status = "ok"
    /\ listed.path = DirPath
    /\ listed.names = << <<"a", ".", "p", "d", "f">> >>
    /\ \E i \in 1..Len(fs.entries) : fs.entries[i].name = <<"n">>
    /\ \E i \in 1..Len(fs.entries) : fs.entries[i].name = <<".", "p", "d", "f">>

\* the path exists and cannot be enumerated: it is a regular file, it is
\* unreadable, or one of its entries fails to read
CannotEnumerate(f, path) ==
    /\ exists(f, path)
    /\ \/ f.kind \in {"file", "unreadable"}
       \/ \E i \in 1..Len(f.entries) : f.entries[i].kind = "ioerr"

\* C9: when the path exists but cannot be enumerated, list_files returns an
\* error value ("err") to its caller; it does not panic, and the process
\* goes on.
C9_TypedError ==
    /\ listed.status # "unset" /\ CannotEnumerate(fs, listed.path) =>
           listed.status = "err"
    /\ CannotEnumerate(fs, path_value) => ~crashed

(***************************************************************************)
(* to_camelcase (src/utils.rs 107-122)                                     *)
(***************************************************************************)

MaxChars == 5

\* the characters of the argument: letters of both cases, a space, a
\* white-space character that is no space, a character that is no letter
Chars == {"a", "B", " ", "\t", "_"}

\* char::is_whitespace, on the alphabet
WhiteSpace == {" ", "\t"}

\* char::to_ascii_uppercase, on the lower-case letters of the alphabet
to_ascii_uppercase(c) ==
    CASE c = "a" -> "A"
      [] c = "b" -> "B"
      [] OTHER -> c

\* str::trim: without the leading and the trailing white space
RECURSIVE trim(_)
trim(t) ==
    IF t = <<>> THEN t
    ELSE IF Head(t) \in WhiteSpace THEN trim(Tail(t))
    ELSE IF t[Len(t)] \in WhiteSpace THEN trim(SubSeq(t, 1, Len(t) - 1))
    ELSE t

\* the loop over text.chars(), from the state (start_of_word, result)
RECURSIVE CamelLoop(_, _, _)
CamelLoop(t, start_of_word, result) ==
    IF t = <<>> THEN result
    ELSE IF Head(t) = " " THEN CamelLoop(Tail(t), TRUE, result)
    ELSE IF start_of_word
         THEN CamelLoop(Tail(t), FALSE,
                        Append(result, to_ascii_uppercase(Head(t))))
    ELSE CamelLoop(Tail(t), FALSE, Append(result, Head(t)))

\* Mutation of to_camelcase: the text is not trimmed.
to_camelcase_NoTrim(t) == CamelLoop(t, TRUE, <<>>)

\* to_camelcase
to_camelcase(t) == CamelLoop(trim(t), TRUE, <<>>)

RECURSIVE CharsUpTo(_)
CharsUpTo(n) ==
    IF n = 0 THEN {<<>>}
    ELSE LET prev == CharsUpTo(n - 1)
         IN  prev \cup {Append(t, c) : t \in prev, c \in Chars}

InitCamel ==
    /\ camel_in \in CharsUpTo(MaxChars)
    /\ camel_out = Unset
    /\ camel_prev = Unset
    /\ input = [kind |-> "text", value |-> <<>>]
    /\ ident = NoDoc
    /\ date_out = Unset
    /\ page_out = Unset
    /\ doc = NoDoc
    /\ normalized = "unset"
    /\ ScanIdle
    /\ AppIdle

\* a call of to_camelcase(camel_in)
ToCamelcase ==
    /\ camel_out = Unset
    /\ camel_out' = Returned(to_camelcase(camel_in))
    /\ UNCHANGED <<camel_in, camel_prev, codecVars, scanVars, appVars>>

\* the result becomes the argument of the next call
Again ==
    /\ camel_out # Unset
    /\ camel_prev = Unset
    /\ camel_in' = camel_out[1]
    /\ camel_prev' = camel_out
    /\ camel_out' = Unset
    /\ UNCHANGED <<codecVars, scanVars, appVars>>

NextCamel ==
    \/ ToCamelcase
    \/ Again

SpecCamel == InitCamel /\ [][NextCamel]_vars

(***************************************************************************)
(* Claims about to_camelcase, checked under SpecCamel                      *)
(***************************************************************************)

\* the positions of t between its first and its last character that is no
\* white space
Inner(t) ==
    LET solid == {i \in 1..Len(t) : t[i] \notin WhiteSpace}
    IN  IF solid = {} THEN {}
        ELSE {i \in 1..Len(t) : Min(solid) <= i /\ i <= Max(solid)}

\* the k-th smallest element of the set S of numbers
Nth(S, k) == CHOOSE x \in S : Cardinality({y \in S : y <= x}) = k

\* the upper-case form of the letters
UpperOf(c) == IF c = "a" THEN "A" ELSE IF c = "b" THEN "B" ELSE c

\* C12: to_camelcase trims the surrounding white space, removes every
\* space, upper-cases the first character of the text and every character
\* that follows a space, and leaves every other character as it is; applied
\* to its own result it returns that result.
C12_CamelCase ==
    camel_out # Unset =>
        LET t == camel_in
            r == camel_out[1]
            kept == {i \in Inner(t) : t[i] # " "}
        IN  /\ Len(r) = Cardinality(kept)
            /\ \A k \in 1..Len(r) :
                   LET i == Nth(kept, k)
                   IN  r[k] = IF i = Min(Inner(t)) \/ t[i - 1] = " "
                              THEN UpperOf(t[i])
                              ELSE t[i]
            /\ camel_prev # Unset => camel_out = camel_prev

\* C12's case: the second call on a text that came out of the words "a",
\* "Ba" and "_a", the second with a tab in it
C12_Witness ==
    /\ camel_prev # Unset
    /\ camel_out = Returned(<<"A", "B", "\t", "a">>)

(***************************************************************************)
(* The application (src/main.rs): FileCabinet::update, DocPane::update,    *)
(* Document::update, the views that produce the messages                   *)
(***************************************************************************)

MaxFiles == 2
MaxBatch == 2
MaxSplits == 3

\* the canonical file name of the identity (2018-13-05, a, b, 1)
CanonicalName ==
    <<"2", "0", "1", "8", "-", "1", "3", "-", "0", "5", "_", "a", "_", "b",
      "_", "1", ".", "p", "d", "f">>

\* what the directory of the application may hold
AppCatalogue ==
    { [name |-> CanonicalName, kind |-> "file"],
      [name |-> <<"a", ".", "p", "d", "f">>, kind |-> "file"] }

RECURSIVE AppEntrySeqs(_)
AppEntrySeqs(n) ==
    IF n = 0 THEN {<<>>}
    ELSE LET prev == AppEntrySeqs(n - 1)
         IN  prev \cup {Append(es, e) : es \in prev, e \in AppCatalogue}

\* the file systems the application runs on: DirPath is a directory of at
\* most MaxFiles files, a regular file, or absent
AppFileSystems ==
    {[kind |-> "dir", entries |-> es] :
        es \in {x \in AppEntrySeqs(MaxFiles) : Distinct(x)}}
    \cup {[kind |-> k, entries |-> <<>>] : k \in {"absent", "file"}}

\* what the user types into the path input
TypedPaths == { DirPath, <<"q">> }

\* what the user leaves in the text input of a document
EditedPaths == { <<>> }

Filters == {"All", "Normalized", "Unnormalized"}

\* Message and TaskMessage, as one record: type is the variant of Message,
\* i the index and kind the variant of a TaskMessage (the Filter of a
\* FilterChanged), value the String and flag the bool it carries
Msg(type, i, kind, value, flag) ==
    [type |-> type, i |-> i, kind |-> kind, value |-> value, flag |-> flag]

MsgLoaded == Msg("Loaded", 0, "", <<>>, FALSE)
MsgSaved == Msg("Saved", 0, "", <<>>, FALSE)
MsgCreateTask == Msg("CreateTask", 0, "", <<>>, FALSE)
MsgPathChanged(value) == Msg("PathChanged", 0, "", value, FALSE)
MsgFilterChanged(f) == Msg("FilterChanged", 0, f, <<>>, FALSE)
MsgTask(i, kind, value, flag) == Msg("TaskMessage", i, kind, value, flag)

\* Filter::matches
matches(f, d) ==
    CASE f = "All" -> TRUE
      [] f = "Normalized" -> ~d.completed
      [] f = "Unnormalized" -> d.completed

\* Document::view: the messages of the widgets of the document at index i
DocumentView(i, d, can_split) ==
    IF d.state = "Idle"
    THEN { MsgTask(i, "Completed", <<>>, ~d.completed),
           MsgTask(i, "Edit", <<>>, FALSE) }
         \cup (IF can_split
               THEN { MsgTask(i, "OpenPreviewPane", d.path, FALSE) }
               ELSE {})
    ELSE { MsgTask(i, "PathEdited", v, FALSE) : v \in EditedPaths }
         \cup { MsgTask(i, "FinishEdition", <<>>, FALSE),
                MsgTask(i, "Delete", <<>>, FALSE) }

\* the indices, counted from 0, of the documents DocPane::view shows
filtered_tasks(ds, f) == {i \in 0..(Len(ds) - 1) : matches(f, ds[i + 1])}

\* DocPane::view: the path input, the controls and the rows of the
\* documents the filter matches, each with its index in docs
DocPaneView(ds, f, can_split) ==
    { MsgPathChanged(v) : v \in TypedPaths }
    \cup { MsgCreateTask }
    \cup { MsgFilterChanged(g) : g \in Filters }
    \cup UNION { DocumentView(i, ds[i + 1], can_split) :
                   i \in filtered_tasks(ds, f) }

\* the sequences of at most n messages of the set ms
RECURSIVE BatchesUpTo(_, _)
BatchesUpTo(ms, n) ==
    IF n = 0 THEN {<<>>}
    ELSE LET prev == BatchesUpTo(ms, n - 1)
         IN  prev \cup {Append(b, m) : b \in prev, m \in ms}

\* Document::update
DocumentUpdate(d, m) ==
    CASE m.kind = "Completed" -> [d EXCEPT !.completed = m.flag]
      [] m.kind = "Edit" -> [d EXCEPT !.state = "Editing"]
      [] m.kind = "PathEdited" -> [d EXCEPT !.path = m.value]
      [] m.kind = "FinishEdition" ->
             IF d.path # <<>> THEN [d EXCEPT !.state = "Idle"] ELSE d
      [] OTHER -> d

\* Vec::remove(i), i counted from 0 and in range
Remove(v, i) == SubSeq(v, 1, i) \o SubSeq(v, i + 2, Len(v))

\* DocPane::update(TaskMessage(i, Delete)): Vec::remove panics when the
\* index is out of range
DeleteDoc(i) ==
    IF i < Len(docs)
    THEN docs' = Remove(docs, i) /\ crashed' = FALSE
    ELSE docs' = docs /\ crashed' = TRUE

\* DocPane::update(TaskMessage(i, task_message)), any other task message
UpdateDoc(i, m) ==
    /\ docs' = IF i < Len(docs)
               THEN [docs EXCEPT ![i + 1] = DocumentUpdate(@, m)]
               ELSE docs
    /\ crashed' = FALSE

\* DocPane::update, on path_value, docs, filter; crashed when it panics
DocPane_update(m) ==
    CASE m.type = "PathChanged" ->
             /\ path_value' = m.value
             /\ CollectDocs(m.value, list_files(fs, m.value))
             /\ filter' = filter
      [] m.type = "FilterChanged" ->
             /\ filter' = m.kind
             /\ UNCHANGED <<path_value, docs, crashed>>
      [] m.type = "TaskMessage" /\ m.kind = "Delete" ->
             /\ DeleteDoc(m.i)
             /\ UNCHANGED <<path_value, filter>>
      [] m.type = "TaskMessage" /\ m.kind # "Delete" ->
             /\ UpdateDoc(m.i, m)
             /\ UNCHANGED <<path_value, filter>>
      [] OTHER -> UNCHANGED <<path_value, docs, filter, crashed>>

\* the content of a pane of the grid
DocPaneContent(pane) ==
    [pane |-> pane, kind |-> "DocPane", preview_image |-> <<>>]
ImagePane(pane, preview_image) ==
    [pane |-> pane, kind |-> "ImagePane", preview_image |-> preview_image]

\* pane_grid::State::split: the new pane and the split take the next two
\* ids; None when the target is not in the grid
split(ps, lid, target, preview_image) ==
    IF \E c \in ps : c.pane = target
    THEN [panes |-> ps \cup {ImagePane(lid + 1, preview_image)},
          last_id |-> lid + 2, new |-> Some(lid + 1)]
    ELSE [panes |-> ps, last_id |-> lid, new |-> None]

\* pane_grid::State::close: nothing happens when the pane is not in the
\* grid or is its only pane
close(ps, target) ==
    IF (\E c \in ps : c.pane = target) /\ Cardinality(ps) > 1
    THEN {c \in ps : c.pane # target}
    ELSE ps

\* the arm None of the match on state.preview_pane: the new pane is saved
OpenFirst(r) ==
    /\ panes' = r.panes
    /\ last_id' = r.last_id
    /\ preview_pane' = IF r.new # None THEN r.new ELSE preview_pane

\* the arm Some(preview_pane): the result of split is dropped
Reopen(r) ==
    /\ panes' = r.panes
    /\ last_id' = r.last_id
    /\ preview_pane' = preview_pane

\* FileCabinet::update, the arm TaskMessage(_, OpenPreviewPane(path, _))
OpenPreviewPane(path) ==
    IF doc_pane = None THEN UNCHANGED <<panes, last_id, preview_pane>>
    ELSE IF preview_pane = None
         THEN OpenFirst(split(panes, last_id, doc_pane[1], path))
    ELSE Reopen(split(close(panes, preview_pane[1]), last_id,
                      doc_pane[1], path))

\* the end of FileCabinet::update in the state Loaded; nothing of it runs
\* when the match panicked
DirtySaving(saved, panicked) ==
    IF panicked THEN UNCHANGED <<dirty, saving>>
    ELSE LET d == IF saved THEN dirty ELSE TRUE
             s == IF saved THEN FALSE ELSE saving
         IN  IF d /\ ~s
             THEN dirty' = FALSE /\ saving' = TRUE
             ELSE dirty' = d /\ saving' = s

\* FileCabinet::update in the state Loaded.  The command it returns is
\* Command::none() on every path: commands gets no new member.
UpdateLoaded(m) ==
    /\ IF m.type = "TaskMessage" /\ m.kind = "OpenPreviewPane"
       THEN /\ OpenPreviewPane(m.value)
            /\ UNCHANGED <<path_value, docs, filter, crashed>>
       ELSE /\ DocPane_update(m)
            /\ UNCHANGED <<panes, last_id, preview_pane>>
    /\ DirtySaving(m.type = "Saved", crashed')
    /\ UNCHANGED <<app, doc_pane>>

\* FileCabinet::update in the state Loading: Loaded(_) makes the state
\* Loaded(State::default()), every other message is dropped
UpdateLoading(m) ==
    IF m.type = "Loaded"
    THEN /\ app' = "Loaded"
         /\ panes' = {DocPaneContent(0)}
         /\ last_id' = 0
         /\ doc_pane' = Some(0)
         /\ preview_pane' = None
         /\ dirty' = FALSE
         /\ saving' = FALSE
         /\ path_value' = <<>>
         /\ filter' = "All"
         /\ docs' = <<>>
         /\ crashed' = FALSE
    ELSE UNCHANGED <<app, panes, last_id, doc_pane, preview_pane, dirty,
                     saving, path_value, filter, docs, crashed>>

\* FileCabinet::update
Update(m) == IF app = "Loading" THEN UpdateLoading(m) ELSE UpdateLoaded(m)

\* the message a finished command is mapped to
MessageOf(c) == IF c = "load" THEN MsgLoaded ELSE MsgSaved

\* FileCabinet::new: Loading, with SavedState::load() being performed
InitApp ==
    /\ fs \in AppFileSystems
    /\ app = "Loading"
    /\ commands = {"load"}
    /\ panes = {}
    /\ last_id = 0
    /\ doc_pane = None
    /\ preview_pane = None
    /\ dirty = FALSE
    /\ saving = FALSE
    /\ filter = "All"
    /\ pending = <<>>
    /\ listed = [status |-> "unset", path |-> <<>>, names |-> <<>>]
    /\ path_value = <<>>
    /\ docs = <<>>
    /\ crashed = FALSE
    /\ input = [kind |-> "text", value |-> <<>>]
    /\ ident = NoDoc
    /\ date_out = Unset
    /\ page_out = Unset
    /\ doc = NoDoc
    /\ normalized = "unset"
    /\ CamelIdle

\* the runtime finishes a command and hands its message to update
Deliver(c) ==
    /\ ~crashed
    /\ c \in commands
    /\ commands' = commands \ {c}
    /\ Update(MessageOf(c))
    /\ UNCHANGED <<fs, listed, pending, codecVars, camelVars>>

\* the user acts on the widgets of the view: the runtime collects the
\* messages of one batch of events and calls update with the first
Interact(batch) ==
    /\ ~crashed
    /\ app = "Loaded"
    /\ pending = <<>>
    /\ pending' = Tail(batch)
    /\ Update(Head(batch))
    /\ UNCHANGED <<fs, listed, commands, codecVars, camelVars>>

\* the runtime calls update with the next message of the batch; the view
\* is built again when the batch is done
Dispatch ==
    /\ ~crashed
    /\ pending # <<>>
    /\ pending' = Tail(pending)
    /\ Update(Head(pending))
    /\ UNCHANGED <<fs, listed, commands, codecVars, camelVars>>

NextApp ==
    \/ \E c \in {"load", "save"} : Deliver(c)
    \/ \E batch \in BatchesUpTo(DocPaneView(docs, filter,
                                            last_id < 2 * MaxSplits),
                                MaxBatch) \ {<<>>} : Interact(batch)
    \/ Dispatch

SpecApp == InitApp /\ [][NextApp]_vars

\* the application started where DirPath holds no file: it is absent, a
\* regular file or an empty directory
InitAppNoFiles == InitApp /\ fs.entries = <<>>

\* the runtime performs the commands in flight and calls update with
\* every message it collected; the user may stop acting
SpecAppFair ==
    /\ InitAppNoFiles
    /\ [][NextApp]_vars
    /\ WF_vars(Dispatch)
    /\ \A c \in {"load", "save"} : WF_vars(Deliver(c))

(***************************************************************************)
(* Claims about the application, checked under SpecApp                     *)
(***************************************************************************)

\* the grid holds the document pane and one preview pane, which shows path
\* and which state.preview_pane refers to
OnePreviewOf(path) ==
    /\ doc_pane # None
    /\ preview_pane # None
    /\ panes = {DocPaneContent(doc_pane[1]),
                ImagePane(preview_pane[1], path)}

\* C13: after every OpenPreviewPane(path) message the grid holds the
\* document pane and exactly one preview pane, that pane shows path, and
\* state.preview_pane refers to it.
C13_OnePreviewPane ==
    [][\A c \in panes' :
           OpenPreviewPane(c.preview_image) /\ last_id' # last_id
               => OnePreviewOf(c.preview_image)']_vars

\* C13 as a property of the states: the panes of the grid are the document
\* pane and at most one preview pane, the one state.preview_pane names.
C13_PreviewPaneInGrid ==
    app = "Loaded" =>
        /\ DocPaneContent(doc_pane[1]) \in panes
        /\ Cardinality({c \in panes : c.kind = "ImagePane"}) <= 1
        /\ \A c \in panes : c.kind = "ImagePane" => preview_pane = Some(c.pane)
        /\ preview_pane # None => \E c \in panes : c.pane = preview_pane[1]

\* the indices of the documents whose path is_normalized accepts
NormalizedDocs == {i \in 0..(Len(docs) - 1) :
                      is_normalized(docs[i + 1].path) = "true"}

\* C14: the filter Normalized shows exactly the documents whose path
\* satisfies is_normalized, Unnormalized exactly the others, All every
\* document.
C14_FiltersClassify ==
    app = "Loaded" /\ ~crashed =>
        /\ filtered_tasks(docs, "Normalized") = NormalizedDocs
        /\ filtered_tasks(docs, "Unnormalized")
               = (0..(Len(docs) - 1)) \ NormalizedDocs
        /\ filtered_tasks(docs, "All") = 0..(Len(docs) - 1)

\* the document list of a scan of the path v
ScanOf(v) ==
    LET r == list_files(fs, v)
    IN  [i \in 1..Len(r.names) |->
            [path |-> join(v, r.names[i]), completed |-> FALSE,
             state |-> "Idle"]]

\* C15: a PathChanged(v) message that is handled makes the document list
\* exactly the scan of v, and no other step changes the list: the list
\* changes only by becoming the scan of the current path.
C15_RebuiltByScanOnly ==
    [][/\ pending # <<>> /\ pending' = Tail(pending)
          /\ Head(pending).type = "PathChanged"
          /\ ~crashed'
              => /\ list_files(fs, Head(pending).value).status = "ok"
                 /\ docs' = ScanOf(Head(pending).value)
       /\ docs' # docs
              => /\ list_files(fs, path_value').status = "ok"
                 /\ docs' = ScanOf(path_value')]_vars

\* C16: every save that is started completes: whenever saving is true it
\* is false again later.
C16_EverySaveCompletes == saving ~> ~saving

\* C16, the condition a finite run shows: while saving is true a save is
\* being performed, whose Saved message will reset it.
C16_SavingHasSaveInFlight == saving => "save" \in commands

\* C17: TaskMessage(i, Delete) never panics; when i < len(docs) it removes
\* exactly the entry at index i, the others keeping their order, and when
\* i >= len(docs) it leaves the list as it is.
C17_DeleteNeverPanics ==
    [][/\ pending # <<>> /\ pending' = Tail(pending)
       /\ Head(pending).type = "TaskMessage"
       /\ Head(pending).kind = "Delete"
       => LET i == Head(pending).i
          IN  /\ ~crashed'
              /\ i >= Len(docs) => docs' = docs
              /\ i < Len(docs) =>
                     docs' = [k \in 1..(Len(docs) - 1) |->
                                 IF k <= i THEN docs[k] ELSE docs[k + 1]]]_vars

=============================================================================
